---- MODULE Spec2Model ----
(***************************************************************************)
(* The JIT compilation engine of core-projects/jit-compiler/src/           *)
(* jit_engine.c: the process-wide context with its executable code cache,  *)
(* the IR builder, the two optimization passes, the per-architecture code  *)
(* generators and jit_function_compile; and the stand-alone compiler of    *)
(* jit-compiler/jit_compiler.c with its main.  The x86-64 code both emit   *)
(* is executed by an interpreter of the instructions they use.             *)
(*                                                                         *)
(* Scaling.  int64_t is modelled with IntBits bits (two's complement), the *)
(* 1 MiB code cache with JIT_CODE_CACHE_SIZE bytes.  Signed overflow and   *)
(* stores past the end of the mapping are undefined behaviour in C: each   *)
(* is a choice between the outcomes a build produces (wraparound or a      *)
(* trap; a silent stray store or a fault).                                 *)
(* Two threads inside jit_function_compile race on the context: their     *)
(* calls interleave at each load and store of shared memory.               *)
(***************************************************************************)
EXTENDS Integers, Sequences, FiniteSets, TLC

VARIABLES
    g_jit_context,      \* static jit_context_t g_jit_context
    current_arch,       \* static const arch_info_t *current_arch (index into supported_archs)
    block_id_counter,   \* static uint32_t block_id_counter of jit_block_create
    cache,              \* the bytes of the mapped code cache, by offset from code_cache
    func,               \* the jit_function_t the caller holds, or NULL
    vals,               \* the jit_value_t values the caller holds
    status,             \* "running", or "crashed" once the process was killed
    overrun,            \* some byte was stored past the end of the code cache
    last,               \* the last call made and what it returned
    cpu,                \* the processor after the last call of compiled code
    demo,               \* the jit_context_t of jit_compiler.c that main holds
    threads             \* two threads inside jit_function_compile: their locals

vars == <<g_jit_context, current_arch, block_id_counter, cache, func, vals,
          status, overrun, last, cpu, demo, threads>>

---------------------------------------------------------------------------
(* Bounds of the model *)

IntBits == 6
JIT_CODE_CACHE_SIZE == 24
MaxInsns == 3
MaxSsaId == 5
MaxBlockId == 1
SmallInsns == 1
SmallSsaId == 2
CODE_BUFFER_SIZE == 16
IrSsaId == 4
AllocInsns == 16

---------------------------------------------------------------------------
(* Enumerations and constants of the source *)

JIT_ARCH_X86_64 == 0
JIT_ARCH_ARM64 == 1
JIT_ARCH_RISCV64 == 2

JIT_TYPE_INT32 == 0
JIT_TYPE_INT64 == 1
JIT_TYPE_PTR == 4

JIT_OP_ADD == 0
JIT_OP_SUB == 1
JIT_OP_MUL == 2
JIT_OP_DIV == 3
JIT_OP_MOV == 4
JIT_OP_LOAD == 5
JIT_OP_STORE == 6
JIT_OP_BRANCH == 7
JIT_OP_BRANCH_IF == 8
JIT_OP_CALL == 9
JIT_OP_RETURN == 10

JIT_SUCCESS == 0
JIT_ERROR_MEMORY == -1

NULL == 0
MAP_FAILED == -1
\* the address mmap returns for the code cache (page aligned)
CacheBase == 4096

supported_archs ==
    <<[arch |-> JIT_ARCH_X86_64, name |-> "x86_64", word_size |-> 8,
       num_registers |-> 16, stack_alignment |-> 16],
      [arch |-> JIT_ARCH_ARM64, name |-> "arm64", word_size |-> 8,
       num_registers |-> 32, stack_alignment |-> 16],
      [arch |-> JIT_ARCH_RISCV64, name |-> "riscv64", word_size |-> 8,
       num_registers |-> 32, stack_alignment |-> 16]>>

---------------------------------------------------------------------------
(* Fixed-width signed integers *)

Pow2(n) == 2 ^ n
MinInt == 0 - Pow2(IntBits - 1)
MaxInt == Pow2(IntBits - 1) - 1

\* the value an int64_t holds after a wrapping operation
Wrap(x) == ((x + Pow2(IntBits - 1)) % Pow2(IntBits)) - Pow2(IntBits - 1)
Overflows(x) == x < MinInt \/ x > MaxInt

\* the content of a struct field that was never written
Indeterminate == MinInt - 1

\* what the caller passes
ArchInputs == {JIT_ARCH_X86_64, JIT_ARCH_ARM64, JIT_ARCH_RISCV64, 3}
TypeInputs == {JIT_TYPE_INT64}
SmallConsts == {MaxInt}

---------------------------------------------------------------------------
(* The zeroed objects that memset and calloc produce *)

ZeroContext ==
    [target_arch |-> 0, code_cache |-> NULL, code_ptr |-> 0,
     code_cache_size |-> 0, initialized |-> 0]

ZeroValue == [id |-> 0, type |-> 0, is_constant |-> 0, constant_value |-> 0]

ZeroInstruction ==
    [opcode |-> 0, dest |-> ZeroValue, src1 |-> ZeroValue, src2 |-> ZeroValue,
     target_block |-> NULL, else_block |-> NULL, is_live |-> 0]

ZeroCache == [o \in 0 .. (JIT_CODE_CACHE_SIZE - 1) |-> 0]

ZeroBlock ==
    [id |-> 0, instructions |-> <<>>, last_instruction |-> NULL,
     num_instructions |-> 0, next |-> NULL, visited |-> 0]

\* no function: the caller's handle is NULL
NullFunc ==
    [ptr |-> NULL, entry_block |-> NULL, current_block |-> NULL, num_blocks |-> 0,
     next_ssa_id |-> 0,
     reg_allocator |-> [num_virtual_regs |-> 0, num_physical_regs |-> 0],
     blk |-> ZeroBlock]

\* the record of a call: its name, the kind of result ("int", "PTR", "NULL",
\* "void", "killed"), the integer or code address returned, the number of bytes
\* the call stored, and the passes it ran
Call(name, ret, val, emitted, steps) ==
    [call |-> name, ret |-> ret, val |-> val, emitted |-> emitted, steps |-> steps]

NoCall == Call("none", "void", 0, 0, <<>>)

---------------------------------------------------------------------------
(* Values and instructions *)

\* jit_value_create: the fresh value; constant_value is left unwritten
jit_value_create(f, type) ==
    [id |-> f.next_ssa_id, type |-> type, is_constant |-> 0,
     constant_value |-> Indeterminate]

\* jit_value_create_constant
jit_value_create_constant(f, type, constant) ==
    [jit_value_create(f, type) EXCEPT !.is_constant = 1, !.constant_value = constant]

\* a variant that hands out the same id again
BumpSsaNone(f) == f

\* the function after a value was created: next_ssa_id++
BumpSsa(f) == [f EXCEPT !.next_ssa_id = @ + 1]

\* a variant that links the new instruction at the head of the list
add_instruction_front(f, inst) ==
    [f EXCEPT !.blk.instructions = <<inst>> \o @,
              !.blk.last_instruction = IF f.blk.instructions = <<>> THEN 1 ELSE @ + 1,
              !.blk.num_instructions = @ + 1]

\* add_instruction on the current block (always the entry block).  The list is
\* the chain of next pointers from instructions; last_instruction is a position
\* in it.  The new instruction becomes the head of an empty list, or the
\* successor of last_instruction, whose former successors are unlinked.
add_instruction(f, inst) ==
    [f EXCEPT !.blk.instructions =
                  IF @ = <<>> THEN <<inst>>
                  ELSE Append(SubSeq(@, 1, f.blk.last_instruction), inst),
              !.blk.last_instruction =
                  IF f.blk.instructions = <<>> THEN 1 ELSE @ + 1,
              !.blk.num_instructions = @ + 1]

---------------------------------------------------------------------------
(* Optimization passes *)

\* a variant that takes every instruction for a side-effect instruction
IsSideEffectAny(op) == op \in JIT_OP_ADD .. JIT_OP_RETURN

IsSideEffect(op) == op \in {JIT_OP_STORE, JIT_OP_RETURN, JIT_OP_CALL}

\* a variant whose flags settle only after three sweeps
DceSweepSlow(insns) ==
    [insns |-> [i \in 1 .. Len(insns) |->
                   IF insns[i].is_live < 3 /\ IsSideEffect(insns[i].opcode)
                   THEN [insns[i] EXCEPT !.is_live = @ + 1]
                   ELSE insns[i]],
     changed |-> \E i \in 1 .. Len(insns) :
                    insns[i].is_live < 3 /\ IsSideEffect(insns[i].opcode)]

\* one iteration of the while (changed) loop over the instruction list
DceSweep(insns) ==
    [insns |-> [i \in 1 .. Len(insns) |->
                   IF insns[i].is_live = 0 /\ IsSideEffect(insns[i].opcode)
                   THEN [insns[i] EXCEPT !.is_live = 1]
                   ELSE insns[i]],
     changed |-> \E i \in 1 .. Len(insns) :
                    insns[i].is_live = 0 /\ IsSideEffect(insns[i].opcode)]

RECURSIVE DceLoop(_)
DceLoop(insns) ==
    LET r == DceSweep(insns)
    IN  IF r.changed THEN DceLoop(r.insns) ELSE r.insns

\* the number of iterations the while (changed) loop makes; changed starts at 1,
\* so the body runs once even on an empty list
RECURSIVE DceSweeps(_)
DceSweeps(insns) ==
    LET r == DceSweep(insns)
    IN  IF r.changed THEN 1 + DceSweeps(r.insns) ELSE 1

\* a variant that unlinks the instructions the marking left dead
eliminate_dead_code_sweep(f) ==
    IF f.entry_block = NULL THEN f
    ELSE LET kept == SelectSeq(DceLoop(f.blk.instructions), LAMBDA x : x.is_live = 1)
         IN  [f EXCEPT !.blk.instructions = kept,
                       !.blk.last_instruction = Len(kept),
                       !.blk.num_instructions = Len(kept)]

\* eliminate_dead_code: marks, never unlinks
eliminate_dead_code(f) ==
    IF f.entry_block = NULL THEN f
    ELSE [f EXCEPT !.blk.instructions = DceLoop(@)]

\* a variant that does not look at the opcode
FoldableConstants(inst) ==
    /\ inst.src1.is_constant # 0
    /\ inst.src2.is_constant # 0

Foldable(inst) ==
    /\ inst.src1.is_constant # 0
    /\ inst.src2.is_constant # 0
    /\ inst.opcode \in {JIT_OP_ADD, JIT_OP_SUB, JIT_OP_MUL}

\* the mathematical result of the C expression, before it is stored in int64_t
FoldExact(inst) ==
    IF inst.opcode = JIT_OP_ADD
    THEN inst.src1.constant_value + inst.src2.constant_value
    ELSE IF inst.opcode = JIT_OP_SUB
    THEN inst.src1.constant_value - inst.src2.constant_value
    ELSE inst.src1.constant_value * inst.src2.constant_value

\* the folded instruction; the constant takes the next id of the function
FoldInst(f, inst) ==
    [inst EXCEPT !.opcode = JIT_OP_MOV,
                 !.src1 = jit_value_create_constant(f, inst.dest.type,
                                                    Wrap(FoldExact(inst))),
                 !.src2.id = 0]

\* the walk of constant_folding from instruction i on
RECURSIVE FoldFrom(_, _)
FoldFrom(f, i) ==
    IF i > Len(f.blk.instructions) THEN f
    ELSE LET inst == f.blk.instructions[i]
         IN  IF Foldable(inst)
             THEN FoldFrom(BumpSsa([f EXCEPT !.blk.instructions[i] = FoldInst(f, inst)]),
                           i + 1)
             ELSE FoldFrom(f, i + 1)

\* a variant that propagates the folded constants to their users and folds again
constant_folding_propagate(f) ==
    IF f.entry_block = NULL THEN f
    ELSE LET g == FoldFrom(f, 1)
             insns == g.blk.instructions
             Defines(i, v) == /\ insns[i].opcode = JIT_OP_MOV
                              /\ insns[i].src1.is_constant # 0
                              /\ insns[i].dest.id = v.id
                              /\ v.id # 0
             Propagated(v) ==
                 IF \E i \in 1 .. Len(insns) : Defines(i, v)
                 THEN insns[CHOOSE i \in 1 .. Len(insns) : Defines(i, v)].src1
                 ELSE v
         IN  FoldFrom([g EXCEPT !.blk.instructions =
                          [i \in 1 .. Len(insns) |->
                              [insns[i] EXCEPT !.src1 = Propagated(@),
                                               !.src2 = Propagated(@)]]],
                      1)

constant_folding(f) ==
    IF f.entry_block = NULL THEN f ELSE FoldFrom(f, 1)

\* some signed operation of the pass overflows int64_t (undefined behaviour)
FoldOverflows(f) ==
    /\ f.entry_block # NULL
    /\ \E i \in 1 .. Len(f.blk.instructions) :
          /\ Foldable(f.blk.instructions[i])
          /\ Overflows(FoldExact(f.blk.instructions[i]))

---------------------------------------------------------------------------
(* Code generation *)

\* byte k of the 8-byte little-endian image of an int64_t
ImmByte(v, k) ==
    IF k < 3 THEN ((v % Pow2(24)) \div Pow2(8 * k)) % 256
    ELSE IF v < 0 THEN 255 ELSE 0

Imm64(v) == [k \in 1 .. 8 |-> ImmByte(v, k - 1)]

X86Template(inst) ==
    IF inst.opcode = JIT_OP_ADD THEN <<72, 1, 192>>
    ELSE IF inst.opcode = JIT_OP_SUB THEN <<72, 41, 192>>
    ELSE IF inst.opcode = JIT_OP_MUL THEN <<72, 15, 175, 192>>
    ELSE IF inst.opcode = JIT_OP_MOV
    THEN IF inst.src1.is_constant # 0
         THEN <<72, 184>> \o Imm64(inst.src1.constant_value)
         ELSE <<72, 137, 192>>
    ELSE IF inst.opcode = JIT_OP_RETURN THEN <<72, 137, 236, 93, 195>>
    ELSE <<>>

\* the walk over the instruction list from instruction i on
RECURSIVE X86Body(_, _)
X86Body(insns, i) ==
    IF i > Len(insns) THEN <<>>
    ELSE X86Template(insns[i]) \o X86Body(insns, i + 1)

\* a variant that emits the live instructions only
codegen_x86_64_live(f) ==
    <<85, 72, 137, 229>> \o
    (IF f.entry_block = NULL THEN <<>>
     ELSE X86Body(SelectSeq(f.blk.instructions, LAMBDA x : x.is_live # 0), 1))

\* codegen_x86_64: the bytes stored from code_buffer on
codegen_x86_64(f) ==
    <<85, 72, 137, 229>> \o
    (IF f.entry_block = NULL THEN <<>> ELSE X86Body(f.blk.instructions, 1))

\* the 32-bit words as stored by a little-endian host
Arm64Template(inst) ==
    IF inst.opcode = JIT_OP_ADD THEN <<0, 0, 0, 139>>
    ELSE IF inst.opcode = JIT_OP_SUB THEN <<0, 0, 0, 203>>
    ELSE IF inst.opcode = JIT_OP_MUL THEN <<0, 124, 0, 155>>
    ELSE IF inst.opcode = JIT_OP_RETURN THEN <<253, 123, 193, 168, 192, 3, 95, 214>>
    ELSE <<>>

RECURSIVE Arm64Body(_, _)
Arm64Body(insns, i) ==
    IF i > Len(insns) THEN <<>>
    ELSE Arm64Template(insns[i]) \o Arm64Body(insns, i + 1)

\* codegen_arm64: the bytes stored from code_buffer on
codegen_arm64(f) ==
    <<253, 123, 191, 169, 253, 3, 0, 145>> \o
    (IF f.entry_block = NULL THEN <<>> ELSE Arm64Body(f.blk.instructions, 1))

---------------------------------------------------------------------------
(* Execution of the generated x86-64 code *)

\* x86_register_t
RAX == 0
RCX == 1
RDX == 2
RBX == 3
RSP == 4
RBP == 5
RSI == 6
RDI == 7

\* the stack of the caller: the slot that holds the return address, the frame
\* pointer of the caller, and the address the call returns to
StackTop == 16
FrameBase == 24
ReturnAddress == 1
StackSlots == {StackTop - 16, StackTop - 8, StackTop}

\* the byte at offset o of a code buffer; -1 where nothing is mapped
ByteAt(code, o) == IF o \in DOMAIN code THEN code[o] ELSE -1

\* the fields of a ModR/M byte
ModField(b) == b \div 64
RegField(b) == (b \div 8) % 8
RmField(b) == b % 8

\* the 64-bit immediate stored at offset o, as the register holds it
ImmAt(code, o) ==
    LET low == ByteAt(code, o) + 256 * ByteAt(code, o + 1) + 65536 * ByteAt(code, o + 2)
    IN  Wrap(IF ByteAt(code, o + 7) >= 128 THEN low - Pow2(24) ELSE low)

\* the processor on entry to the code at offset entry, called with the System V
\* convention: a in rdi, b in rsi; rax holds whatever the caller left in it
Entry(entry, a, b, rax0) ==
    [reg |-> [r \in 0 .. 7 |->
                IF r = RAX THEN rax0
                ELSE IF r = RDI THEN a
                ELSE IF r = RSI THEN b
                ELSE IF r = RSP THEN StackTop
                ELSE IF r = RBP THEN FrameBase
                ELSE 0],
     mem |-> [x \in StackSlots |-> IF x = StackTop THEN ReturnAddress ELSE 0],
     pc |-> entry,
     halt |-> "run"]

Fault(m) == [m EXCEPT !.halt = "fault"]

\* push rbp / pop rbp / ret
Push(m, v) ==
    IF m.reg[RSP] - 8 \in StackSlots
    THEN [m EXCEPT !.reg[RSP] = @ - 8, !.mem[m.reg[RSP] - 8] = v, !.pc = @ + 1]
    ELSE Fault(m)

Pop(m, r) ==
    IF m.reg[RSP] \in StackSlots
    THEN [m EXCEPT !.reg[r] = m.mem[m.reg[RSP]], !.reg[RSP] = m.reg[RSP] + 8,
                   !.pc = @ + 1]
    ELSE Fault(m)

Ret(m) ==
    IF m.reg[RSP] \in StackSlots /\ m.mem[m.reg[RSP]] = ReturnAddress
    THEN [m EXCEPT !.reg[RSP] = @ + 8, !.halt = "ret"]
    ELSE Fault(m)

\* the instructions with a REX.W prefix, register to register
RexW(code, m) ==
    LET b1 == ByteAt(code, m.pc + 1)
        b2 == ByteAt(code, m.pc + 2)
        b3 == ByteAt(code, m.pc + 3)
    IN  IF b1 = 137 /\ b2 >= 192                        \* 89 /r  mov r/m64, r64
        THEN [m EXCEPT !.reg[RmField(b2)] = m.reg[RegField(b2)], !.pc = @ + 3]
        ELSE IF b1 = 1 /\ b2 >= 192                     \* 01 /r  add r/m64, r64
        THEN [m EXCEPT !.reg[RmField(b2)] = Wrap(@ + m.reg[RegField(b2)]), !.pc = @ + 3]
        ELSE IF b1 = 41 /\ b2 >= 192                    \* 29 /r  sub r/m64, r64
        THEN [m EXCEPT !.reg[RmField(b2)] = Wrap(@ - m.reg[RegField(b2)]), !.pc = @ + 3]
        ELSE IF b1 = 15 /\ b2 = 175 /\ b3 >= 192        \* 0f af /r  imul r64, r/m64
        THEN [m EXCEPT !.reg[RegField(b3)] = Wrap(@ * m.reg[RmField(b3)]), !.pc = @ + 4]
        ELSE IF b1 >= 184 /\ b1 <= 191 /\ ByteAt(code, m.pc + 9) >= 0   \* b8+r imm64
        THEN [m EXCEPT !.reg[b1 - 184] = ImmAt(code, m.pc + 2), !.pc = @ + 10]
        ELSE Fault(m)

\* one instruction
X86Step(code, m) ==
    LET b0 == ByteAt(code, m.pc)
    IN  IF b0 = 85 THEN Push(m, m.reg[RBP])
        ELSE IF b0 = 93 THEN Pop(m, RBP)
        ELSE IF b0 = 195 THEN Ret(m)
        ELSE IF b0 = 72 THEN RexW(code, m)
        ELSE Fault(m)

\* the processor when the call has returned or faulted
RECURSIVE Run(_, _)
Run(code, m) == IF m.halt # "run" THEN m ELSE Run(code, X86Step(code, m))

\* what is known of a call of compiled code: where the code is, the arguments,
\* and rax, rsp and rbp when it returned
Ran(code, a, b, m) ==
    [code |-> code, a |-> a, b |-> b, rax |-> m.reg[RAX], rsp |-> m.reg[RSP],
     rbp |-> m.reg[RBP], halt |-> m.halt]

NoRun == [code |-> NULL, a |-> 0, b |-> 0, rax |-> 0, rsp |-> 0, rbp |-> 0,
          halt |-> "none"]

---------------------------------------------------------------------------
(* The stand-alone compiler of jit-compiler/jit_compiler.c *)

\* ir_opcode_t
IR_ADD == 2
IR_RET == 11

\* the address mmap returns for the code buffer
BufferBase == 8192

ZeroBuffer == [o \in 0 .. (CODE_BUFFER_SIZE - 1) |-> 0]

\* main before jit_create_context: it holds no context.  values and
\* instructions are the ssa_value_t and ssa_instruction_t objects of the one
\* block; an instruction names its values by position in values, 0 for NULL.
NoDemo ==
    [at |-> "none", ctx |-> NULL, code_buffer |-> NULL, buf |-> ZeroBuffer,
     code_size |-> 0, next_ssa_id |-> 0, next_reg |-> 0, block_count |-> 0,
     values |-> <<>>, instructions |-> <<>>]

\* jit_emit_byte: the byte is dropped when the buffer is full
jit_emit_byte(d, byte) ==
    IF d.code_size < CODE_BUFFER_SIZE
    THEN [d EXCEPT !.buf[d.code_size] = byte, !.code_size = @ + 1]
    ELSE d

\* jit_emit_byte for each byte of a sequence, from byte i on
RECURSIVE EmitBytes(_, _, _)
EmitBytes(d, bytes, i) ==
    IF i > Len(bytes) THEN d
    ELSE EmitBytes(jit_emit_byte(d, bytes[i]), bytes, i + 1)

jit_emit_ret(d) == jit_emit_byte(d, 195)

\* the two passes walk the block and print; they change nothing
jit_eliminate_dead_code(d) == d
jit_constant_propagation(d) == d

\* a variant that hands out all sixteen registers
available_regs_all == <<0, 1, 2, 3, 4, 5, 6, 7, 8, 9, 10, 11, 12, 13, 14, 15>>

\* available_regs of jit_allocate_registers: all but RSP and RBP
available_regs == <<0, 1, 2, 3, 6, 7, 8, 9, 10, 11, 12, 13, 14, 15>>

\* jit_allocate_registers from instruction i on: a destination whose register
\* is -1 gets the next register, round robin
RECURSIVE AllocateFrom(_, _)
AllocateFrom(d, i) ==
    IF i > Len(d.instructions) THEN d
    ELSE LET dest == d.instructions[i].dest
         IN  IF dest # NULL /\ d.values[dest].reg = -1
             THEN AllocateFrom(
                      [d EXCEPT !.values[dest].reg =
                                    available_regs[(d.next_reg % Len(available_regs)) + 1],
                                !.next_reg = @ + 1],
                      i + 1)
             ELSE AllocateFrom(d, i + 1)

jit_allocate_registers(d) ==
    IF d.block_count = 0 THEN d ELSE AllocateFrom(d, 1)

\* the SSA form jit_compile_add_function builds: result = arg1 + arg2; return
\* result, with arg1 in RDI, arg2 in RSI and result in RAX
AddFunctionIR(d) ==
    [d EXCEPT !.values = <<[id |-> d.next_ssa_id, reg |-> RDI],
                           [id |-> d.next_ssa_id + 1, reg |-> RSI],
                           [id |-> d.next_ssa_id + 2, reg |-> RAX]>>,
              !.next_ssa_id = @ + 3,
              !.instructions = <<[opcode |-> IR_ADD, dest |-> 3, src1 |-> 1, src2 |-> 2],
                                 [opcode |-> IR_RET, dest |-> NULL, src1 |-> 3,
                                  src2 |-> NULL]>>,
              !.block_count = 1]

\* the bytes jit_compile_add_function emits before jit_emit_ret: push rbp;
\* mov rbp, rsp; mov rax, rdi; add rax, rsi; pop rbp
AddFunctionBytes == <<85, 72, 137, 229, 72, 137, 248, 72, 1, 240, 93>>

\* the passes jit_compile_add_function runs, in call order
DemoPassNames ==
    <<"jit_eliminate_dead_code", "jit_constant_propagation", "jit_allocate_registers">>

\* the context after jit_compile_add_function
CompiledAddFunction(d) ==
    LET ir == AddFunctionIR(d)
        opt == jit_allocate_registers(jit_constant_propagation(jit_eliminate_dead_code(ir)))
    IN  jit_emit_ret(EmitBytes([opt EXCEPT !.code_size = 0], AddFunctionBytes, 1))

---------------------------------------------------------------------------
\* a thread outside jit_function_compile.  Inside, func is the argument, code_start
\* the local of line 546, code the bytes the code generator is storing and
\* written how many of them it has stored, loaded the value of code_ptr read
\* for the update of line 562, ret the pointer returned; after tells that the
\* call began when the call of the other thread had returned.
NoThread ==
    [pc |-> "none", func |-> NullFunc, code_start |-> NULL, code |-> <<>>,
     written |-> 0, loaded |-> NULL, ret |-> NULL, after |-> FALSE]

Threads == {1, 2}

NoThreads == [t \in Threads |-> NoThread]

(* The state after construction: static storage, before any call *)

Init ==
    /\ g_jit_context = ZeroContext
    /\ current_arch = 1
    /\ block_id_counter = 0
    /\ cache = ZeroCache
    /\ func = NullFunc
    /\ vals = {}
    /\ status = "running"
    /\ overrun = FALSE
    /\ last = NoCall
    /\ cpu = NoRun
    /\ threads = NoThreads
    /\ demo = NoDemo

Running == status = "running"

\* the process is killed by a signal inside the call: nothing of it is left
Killed(name) ==
    /\ g_jit_context' = ZeroContext
    /\ current_arch' = 1
    /\ block_id_counter' = 0
    /\ cache' = ZeroCache
    /\ func' = NullFunc
    /\ vals' = {}
    /\ status' = "crashed"
    /\ overrun' = FALSE
    /\ last' = Call(name, "killed", 0, 0, <<>>)
    /\ cpu' = NoRun
    /\ demo' = NoDemo
    /\ threads' = NoThreads

---------------------------------------------------------------------------
(* Context *)

\* the loop over supported_archs: the entry for target_arch, if there is one
ArchLookup(target_arch, cur) ==
    IF \E i \in 1 .. Len(supported_archs) : supported_archs[i].arch = target_arch
    THEN CHOOSE i \in 1 .. Len(supported_archs) : supported_archs[i].arch = target_arch
    ELSE cur

\* the context jit_init leaves, by the result of mmap
InitContext(target_arch, mapping) ==
    LET c == [ZeroContext EXCEPT !.target_arch = target_arch,
                                 !.code_cache_size = JIT_CODE_CACHE_SIZE,
                                 !.code_cache = mapping]
    IN  IF mapping = MAP_FAILED THEN c
        ELSE [c EXCEPT !.code_ptr = c.code_cache, !.initialized = 1]

jit_init(target_arch, mapping) ==
    /\ Running
    /\ g_jit_context' = InitContext(target_arch, mapping)
    /\ current_arch' = ArchLookup(target_arch, current_arch)
    /\ cache' = ZeroCache
    /\ last' = Call("jit_init", "int",
                    IF mapping = MAP_FAILED THEN JIT_ERROR_MEMORY ELSE JIT_SUCCESS,
                    0, <<>>)
    /\ UNCHANGED <<block_id_counter, func, vals, status, overrun, cpu, demo, threads>>

jit_cleanup ==
    /\ Running
    /\ g_jit_context' = ZeroContext
    /\ cache' = ZeroCache
    /\ last' = Call("jit_cleanup", "void", 0, 0, <<>>)
    /\ UNCHANGED <<current_arch, block_id_counter, func, vals, status, overrun, cpu, demo,
                   threads>>

---------------------------------------------------------------------------
(* Functions and the IR builder *)

\* jit_block_create: the block calloc returned, with the next id
jit_block_create(counter) == [ZeroBlock EXCEPT !.id = counter]

\* the address of the block with a given id
BlockAddr(id) == id + 1

\* the function jit_function_create returns; block_ok: calloc of the entry block
NewFunction(counter, arch, block_ok) ==
    [ptr |-> 1,
     entry_block |-> IF block_ok THEN BlockAddr(counter) ELSE NULL,
     current_block |-> IF block_ok THEN BlockAddr(counter) ELSE NULL,
     num_blocks |-> 1,
     next_ssa_id |-> 1,
     reg_allocator |-> [num_virtual_regs |-> 0,
                        num_physical_regs |-> supported_archs[arch].num_registers],
     blk |-> IF block_ok THEN jit_block_create(counter) ELSE ZeroBlock]

jit_function_create(func_ok, block_ok) ==
    /\ Running
    /\ func.ptr = NULL
    /\ block_id_counter < MaxBlockId
    /\ IF g_jit_context.initialized = 0 \/ ~func_ok
       THEN /\ last' = Call("jit_function_create", "NULL", 0, 0, <<>>)
            /\ UNCHANGED <<func, vals, block_id_counter, threads>>
       ELSE /\ func' = NewFunction(block_id_counter, current_arch, block_ok)
            /\ block_id_counter' = IF block_ok THEN block_id_counter + 1
                                   ELSE block_id_counter
            /\ vals' = {}
            /\ last' = Call("jit_function_create", "PTR", 0, 0, <<>>)
    /\ UNCHANGED <<g_jit_context, current_arch, cache, status, overrun, cpu, demo,
                   threads>>

\* a variant that hands the code of the destroyed function back to the cache
jit_function_destroy_reclaim ==
    /\ Running
    /\ func' = NullFunc
    /\ vals' = {}
    /\ g_jit_context' = [g_jit_context EXCEPT !.code_ptr = g_jit_context.code_cache]
    /\ last' = Call("jit_function_destroy", "void", 0, 0, <<>>)
    /\ UNCHANGED <<current_arch, block_id_counter, cache, status, overrun, cpu, demo,
                   threads>>

jit_function_destroy ==
    /\ Running
    /\ func' = NullFunc
    /\ vals' = {}
    /\ last' = Call("jit_function_destroy", "void", 0, 0, <<>>)
    /\ UNCHANGED <<g_jit_context, current_arch, block_id_counter, cache, status, overrun, cpu, demo,
                   threads>>

\* the caller holds a function
HasFunc == Running /\ func.ptr # NULL

Do_value_create(type) ==
    /\ HasFunc
    /\ vals' = vals \cup {jit_value_create(func, type)}
    /\ func' = BumpSsa(func)
    /\ last' = Call("jit_value_create", "void", 0, 0, <<>>)
    /\ UNCHANGED <<g_jit_context, current_arch, block_id_counter, cache, status, overrun, cpu, demo,
                   threads>>

Do_value_create_constant(type, constant) ==
    /\ HasFunc
    /\ vals' = vals \cup {jit_value_create_constant(func, type, constant)}
    /\ func' = BumpSsa(func)
    /\ last' = Call("jit_value_create_constant", "void", 0, 0, <<>>)
    /\ UNCHANGED <<g_jit_context, current_arch, block_id_counter, cache, status, overrun, cpu, demo,
                   threads>>

\* a builder call that appends inst; has_dest: the call created the destination.
\* calloc returning NULL, or a function without current block, is a store
\* through a null pointer.
Build(name, inst, has_dest, calloc_ok) ==
    IF ~calloc_ok \/ func.current_block = NULL
    THEN Killed(name)
    ELSE /\ func' = add_instruction(IF has_dest THEN BumpSsa(func) ELSE func, inst)
         /\ vals' = IF has_dest THEN vals \cup {inst.dest} ELSE vals
         /\ last' = Call(name, "void", 0, 0, <<>>)
         /\ UNCHANGED <<g_jit_context, current_arch, block_id_counter, cache, status,
                        overrun, cpu, demo, threads>>

Arith(op, left, right) ==
    [ZeroInstruction EXCEPT !.opcode = op,
                            !.dest = jit_value_create(func, left.type),
                            !.src1 = left,
                            !.src2 = right]

jit_insn_add(left, right, calloc_ok) ==
    HasFunc /\ Build("jit_insn_add", Arith(JIT_OP_ADD, left, right), TRUE, calloc_ok)

jit_insn_sub(left, right, calloc_ok) ==
    HasFunc /\ Build("jit_insn_sub", Arith(JIT_OP_SUB, left, right), TRUE, calloc_ok)

jit_insn_mul(left, right, calloc_ok) ==
    HasFunc /\ Build("jit_insn_mul", Arith(JIT_OP_MUL, left, right), TRUE, calloc_ok)

jit_insn_load(address, calloc_ok) ==
    HasFunc /\ Build("jit_insn_load",
                       [ZeroInstruction EXCEPT !.opcode = JIT_OP_LOAD,
                                               !.dest = jit_value_create(func, JIT_TYPE_PTR),
                                               !.src1 = address],
                       TRUE, calloc_ok)

jit_insn_store(address, value, calloc_ok) ==
    HasFunc /\ Build("jit_insn_store",
                       [ZeroInstruction EXCEPT !.opcode = JIT_OP_STORE,
                                               !.src1 = address,
                                               !.src2 = value],
                       FALSE, calloc_ok)

jit_insn_branch(target, calloc_ok) ==
    HasFunc /\ Build("jit_insn_branch",
                       [ZeroInstruction EXCEPT !.opcode = JIT_OP_BRANCH,
                                               !.target_block = target],
                       FALSE, calloc_ok)

\* a variant that makes the true block the current block of the function
jit_insn_branch_if_enter(condition, true_block, false_block, calloc_ok) ==
    /\ HasFunc
    /\ IF ~calloc_ok \/ func.current_block = NULL
       THEN Killed("jit_insn_branch_if")
       ELSE /\ func' = [add_instruction(func,
                            [ZeroInstruction EXCEPT !.opcode = JIT_OP_BRANCH_IF,
                                                    !.src1 = condition,
                                                    !.target_block = true_block,
                                                    !.else_block = false_block])
                        EXCEPT !.current_block = true_block]
            /\ last' = Call("jit_insn_branch_if", "void", 0, 0, <<>>)
            /\ UNCHANGED <<g_jit_context, current_arch, block_id_counter, cache, vals,
                           status, overrun, cpu, demo, threads>>

jit_insn_branch_if(condition, true_block, false_block, calloc_ok) ==
    HasFunc /\ Build("jit_insn_branch_if",
                       [ZeroInstruction EXCEPT !.opcode = JIT_OP_BRANCH_IF,
                                               !.src1 = condition,
                                               !.target_block = true_block,
                                               !.else_block = false_block],
                       FALSE, calloc_ok)

jit_insn_return(value, calloc_ok) ==
    HasFunc /\ Build("jit_insn_return",
                       [ZeroInstruction EXCEPT !.opcode = JIT_OP_RETURN,
                                               !.src1 = value],
                       FALSE, calloc_ok)

---------------------------------------------------------------------------
(* Compilation *)

\* the cache cursor as an offset from the start of the cache
CodeOffset(g) == g.code_ptr - g.code_cache

\* the cache after the bytes were stored from offset off on; bytes that fall
\* past the end of the mapping are not part of it
StoreBytes(c, off, bytes) ==
    [o \in DOMAIN c |->
        IF o >= off /\ o < off + Len(bytes) THEN bytes[o - off + 1] ELSE c[o]]

HasBackend(arch) == arch \in {JIT_ARCH_X86_64, JIT_ARCH_ARM64}

\* the switch on target_arch: the bytes the selected code generator stores
Codegen(arch, f) ==
    IF arch = JIT_ARCH_X86_64 THEN codegen_x86_64(f) ELSE codegen_arm64(f)

CodegenName(arch) ==
    IF arch = JIT_ARCH_X86_64 THEN "codegen_x86_64" ELSE "codegen_arm64"

\* the passes jit_function_compile runs before the switch, in call order
PassNames == <<"eliminate_dead_code", "constant_folding">>

Optimize(f) == constant_folding(eliminate_dead_code(f))

\* a variant that leaves the code pointer where it was
AdvanceNone(g, code_size) == g

\* the context after the code pointer was advanced by code_size
Advance(g, code_size) == [g EXCEPT !.code_ptr = @ + code_size]

\* a variant that tests the function only
EarlyReturnFuncOnly(f, g) == f.ptr = NULL

\* the test at the head of jit_function_compile
EarlyReturn(f, g) == f.ptr = NULL \/ g.initialized = 0

\* a variant that generates and accounts for the code before it rejects the target
DispatchEarlyAdvance(g, f) ==
    IF HasBackend(g.target_arch)
    THEN [ret |-> "PTR", ctx |-> Advance(g, Len(Codegen(g.target_arch, f))),
          code |-> Codegen(g.target_arch, f),
          steps |-> Append(PassNames, CodegenName(g.target_arch))]
    ELSE [ret |-> "NULL", ctx |-> Advance(g, Len(codegen_x86_64(f))),
          code |-> <<>>, steps |-> PassNames]

\* the switch on target_arch and what follows it, for the optimized function f:
\* what is returned, the context left, the bytes stored at the code pointer
Dispatch(g, f) ==
    IF HasBackend(g.target_arch)
    THEN [ret |-> "PTR", ctx |-> Advance(g, Len(Codegen(g.target_arch, f))),
          code |-> Codegen(g.target_arch, f),
          steps |-> Append(PassNames, CodegenName(g.target_arch))]
    ELSE [ret |-> "NULL", ctx |-> g, code |-> <<>>, steps |-> PassNames]

\* The guard on the code pointer bounds the model: once the pointer is past the
\* end of the cache, further calls are not followed.
jit_function_compile ==
    /\ Running
    /\ g_jit_context.initialized # 0 =>
           CodeOffset(g_jit_context) <= g_jit_context.code_cache_size
    /\ IF EarlyReturn(func, g_jit_context)
       THEN /\ last' = Call("jit_function_compile", "NULL", NULL, 0, <<>>)
            /\ UNCHANGED <<g_jit_context, current_arch, block_id_counter, cache, func,
                           vals, status, overrun, cpu, demo, threads>>
       ELSE LET g == g_jit_context
                f == Optimize(func)
                r == Dispatch(g, f)
                fits == CodeOffset(g) + Len(r.code) <= g.code_cache_size
            IN  \/ \* signed overflow in constant_folding, trapping build
                   /\ FoldOverflows(func)
                   /\ Killed("jit_function_compile")
                \/ \* a store past the end of the mapping faults
                   /\ ~fits
                   /\ Killed("jit_function_compile")
                \/ \* the call returns; stores past the end went unnoticed
                   /\ func' = f
                   /\ cache' = StoreBytes(cache, CodeOffset(g), r.code)
                   /\ overrun' = (overrun \/ ~fits)
                   /\ g_jit_context' = r.ctx
                   /\ last' = Call("jit_function_compile", r.ret,
                                   IF r.ret = "PTR" THEN g.code_ptr ELSE NULL,
                                   Len(r.code), r.steps)
                   /\ UNCHANGED <<current_arch, block_id_counter, vals, status, cpu, demo,
                                  threads>>

\* the caller calls the code jit_function_compile returned, or calls it again
CodeHeld ==
    \/ last.call = "jit_function_compile" /\ last.ret = "PTR"
    \/ last.call = "Invoke"

Invoke(a, b, rax0) ==
    /\ Running
    /\ CodeHeld
    /\ LET code == IF last.call = "Invoke" THEN cpu.code ELSE last.val
           m == Run(cache, Entry(code - g_jit_context.code_cache, a, b, rax0))
       IN  IF m.halt = "fault"
           THEN Killed("Invoke")
           ELSE /\ cpu' = Ran(code, a, b, m)
                /\ last' = Call("Invoke", "int", m.reg[RAX], 0, <<>>)
                /\ UNCHANGED <<g_jit_context, current_arch, block_id_counter, cache,
                               func, vals, status, overrun, demo, threads>>

---------------------------------------------------------------------------
(* jit_function_compile called by two threads on the one context.  The code
   takes no lock, so the calls interleave at each access to the context and to
   the cache; what a thread does to its own function and locals in between is
   taken with the access that follows. *)

Other(t) == CHOOSE u \in Threads : u # t

\* lines 536-546: the early return, the two passes on the thread's own function, and
\* the read of code_ptr into code_start
compile_enter(t) ==
    /\ Running
    /\ threads[t].pc = "call"
    /\ IF EarlyReturn(threads[t].func, g_jit_context)
          \/ ~HasBackend(g_jit_context.target_arch)
       THEN threads' = [threads EXCEPT ![t].pc = "done", ![t].ret = NULL]
       ELSE LET f == Optimize(threads[t].func)
            IN  threads' = [threads EXCEPT
                               ![t].pc = "emit",
                               ![t].func = f,
                               ![t].code_start = g_jit_context.code_ptr,
                               ![t].code = Codegen(g_jit_context.target_arch, f),
                               ![t].after = (threads[Other(t)].pc = "done")]
    /\ UNCHANGED <<g_jit_context, current_arch, block_id_counter, cache, func, vals,
                   status, overrun, last, cpu, demo>>

\* one store *code++ = byte of the code generator; a store past the end of the
\* mapping faults or goes unnoticed
codegen_store(t) ==
    /\ Running
    /\ threads[t].pc = "emit"
    /\ LET th == threads[t]
           off == th.code_start - g_jit_context.code_cache + th.written
           next == [threads EXCEPT
                       ![t].written = @ + 1,
                       ![t].pc = IF th.written + 1 = Len(th.code)
                                 THEN "load" ELSE "emit"]
       IN  IF off < g_jit_context.code_cache_size
           THEN /\ cache' = [cache EXCEPT ![off] = th.code[th.written + 1]]
                /\ threads' = next
                /\ UNCHANGED <<g_jit_context, current_arch, block_id_counter, func,
                               vals, status, overrun, last, cpu, demo>>
           ELSE \/ Killed("jit_function_compile")
                \/ /\ overrun' = TRUE
                   /\ threads' = next
                   /\ UNCHANGED <<g_jit_context, current_arch, block_id_counter,
                                  cache, func, vals, status, last, cpu, demo>>

\* line 562, first half: the read of g_jit_context.code_ptr
cursor_load(t) ==
    /\ Running
    /\ threads[t].pc = "load"
    /\ threads' = [threads EXCEPT ![t].pc = "store",
                                  ![t].loaded = g_jit_context.code_ptr]
    /\ UNCHANGED <<g_jit_context, current_arch, block_id_counter, cache, func, vals,
                   status, overrun, last, cpu, demo>>

\* a variant that leaves the code pointer where it was
UpdateCursorNone(g, loaded, code_size) == g

\* the context after the write of line 562
UpdateCursor(g, loaded, code_size) == [g EXCEPT !.code_ptr = loaded + code_size]

\* line 562, second half, and the return of code_start
cursor_store(t) ==
    /\ Running
    /\ threads[t].pc = "store"
    /\ g_jit_context' = UpdateCursor(g_jit_context, threads[t].loaded,
                                     Len(threads[t].code))
    /\ threads' = [threads EXCEPT ![t].pc = "done", ![t].ret = threads[t].code_start]
    /\ last' = Call("jit_function_compile", "PTR", threads[t].code_start,
                    Len(threads[t].code),
                    Append(PassNames, CodegenName(g_jit_context.target_arch)))
    /\ UNCHANGED <<current_arch, block_id_counter, cache, func, vals, status,
                   overrun, cpu, demo>>

---------------------------------------------------------------------------
(* main of jit_compiler.c *)

\* malloc returning NULL is followed by a store through the null pointer
jit_create_context(malloc_ok, mmap_ok) ==
    /\ Running
    /\ demo.at = "main"
    /\ IF ~malloc_ok
       THEN Killed("jit_create_context")
       ELSE /\ demo' = [NoDemo EXCEPT !.at = "created",
                                      !.ctx = 1,
                                      !.code_buffer = IF mmap_ok THEN BufferBase
                                                      ELSE MAP_FAILED]
            /\ last' = Call("jit_create_context", "PTR", 1, 0, <<>>)
            /\ UNCHANGED <<g_jit_context, current_arch, block_id_counter, cache, func,
                           vals, status, overrun, cpu, threads>>

\* without a mapped buffer the first jit_emit_byte stores to an unmapped address
jit_compile_add_function(malloc_ok) ==
    /\ Running
    /\ demo.at = "created"
    /\ IF ~malloc_ok \/ demo.code_buffer = MAP_FAILED
       THEN Killed("jit_compile_add_function")
       ELSE /\ demo' = [CompiledAddFunction(demo) EXCEPT !.at = "compiled"]
            /\ last' = Call("jit_compile_add_function", "PTR", demo.code_buffer,
                            CompiledAddFunction(demo).code_size, DemoPassNames)
            /\ UNCHANGED <<g_jit_context, current_arch, block_id_counter, cache, func,
                           vals, status, overrun, cpu, threads>>

\* add_func(42, 58) and add_func(100, 200) of main, for any two arguments
add_func(a, b, rax0) ==
    /\ Running
    /\ demo.at = "compiled"
    /\ LET m == Run(demo.buf, Entry(0, a, b, rax0))
       IN  IF m.halt = "fault"
           THEN Killed("add_func")
           ELSE /\ cpu' = Ran(demo.code_buffer, a, b, m)
                /\ last' = Call("add_func", "int", m.reg[RAX], 0, <<>>)
                /\ UNCHANGED <<g_jit_context, current_arch, block_id_counter, cache,
                               func, vals, status, overrun, demo, threads>>

\* a caller of jit_allocate_registers, as jit_compile_add_function is (line 302),
\* on whatever block of instructions the context holds
allocate_registers ==
    /\ Running
    /\ demo.at = "ir"
    /\ demo' = jit_allocate_registers(demo)
    /\ last' = Call("jit_allocate_registers", "void", 0, 0, <<>>)
    /\ UNCHANGED <<g_jit_context, current_arch, block_id_counter, cache, func, vals,
                   status, overrun, cpu, threads>>

jit_destroy_context ==
    /\ Running
    /\ demo.at = "compiled"
    /\ demo' = [NoDemo EXCEPT !.at = "destroyed"]
    /\ last' = Call("jit_destroy_context", "void", 0, 0, <<>>)
    /\ UNCHANGED <<g_jit_context, current_arch, block_id_counter, cache, func, vals,
                   status, overrun, cpu, threads>>

---------------------------------------------------------------------------
(* The calls a client makes, in any order *)

BlockInputs == {NULL, func.entry_block}

\* the model's bounds on a function: instructions in the block, ids handed out
Room(max_insns) == Len(func.blk.instructions) < max_insns
Ids(max_id) == func.next_ssa_id <= max_id

\* the calls that create values
Values(max_id, consts) ==
    /\ Ids(max_id)
    /\ \/ \E t \in TypeInputs : Do_value_create(t)
       \/ \E t \in TypeInputs, c \in consts : Do_value_create_constant(t, c)

\* the builder calls that create a destination value
BuildDest(max_insns, max_id) ==
    /\ Room(max_insns)
    /\ Ids(max_id)
    /\ \/ \E l, r \in vals, ok \in BOOLEAN : jit_insn_add(l, r, ok)
       \/ \E l, r \in vals, ok \in BOOLEAN : jit_insn_sub(l, r, ok)
       \/ \E l, r \in vals, ok \in BOOLEAN : jit_insn_mul(l, r, ok)
       \/ \E a \in vals, ok \in BOOLEAN : jit_insn_load(a, ok)

\* the builder calls without destination
BuildVoid(max_insns) ==
    /\ Room(max_insns)
    /\ \/ \E a, v \in vals, ok \in BOOLEAN : jit_insn_store(a, v, ok)
       \/ \E t \in BlockInputs, ok \in BOOLEAN : jit_insn_branch(t, ok)
       \/ \E c \in vals, t, e \in BlockInputs, ok \in BOOLEAN :
             jit_insn_branch_if(c, t, e, ok)
       \/ \E v \in vals, ok \in BOOLEAN : jit_insn_return(v, ok)

\* a client of the whole interface
Next ==
    \/ \E t \in ArchInputs, m \in {CacheBase, MAP_FAILED} : jit_init(t, m)
    \/ jit_cleanup
    \/ \E a, b \in BOOLEAN : jit_function_create(a, b)
    \/ jit_function_destroy
    \/ Values(SmallSsaId, SmallConsts)
    \/ BuildDest(SmallInsns, SmallSsaId)
    \/ BuildVoid(SmallInsns)
    \/ jit_function_compile

Spec == Init /\ [][Next]_vars

\* a client that has initialized a context, created a function and two values
\* (a parameter and a constant), and now builds the function and compiles it
BuildArchs == {JIT_ARCH_X86_64, JIT_ARCH_ARM64}

Param(f) == jit_value_create(f, JIT_TYPE_INT64)
Const(f, c) == jit_value_create_constant(f, JIT_TYPE_INT64, c)

InitBuild ==
    /\ \E t \in BuildArchs :
          /\ g_jit_context = InitContext(t, CacheBase)
          /\ current_arch = ArchLookup(t, 1)
          /\ LET f0 == NewFunction(0, ArchLookup(t, 1), TRUE)
                 f1 == BumpSsa(f0)
             IN  /\ func = BumpSsa(f1)
                 /\ vals = {Param(f0), Const(f1, MaxInt)}
    /\ block_id_counter = 1
    /\ cache = ZeroCache
    /\ status = "running"
    /\ overrun = FALSE
    /\ last = Call("jit_value_create_constant", "void", 0, 0, <<>>)
    /\ cpu = NoRun
    /\ threads = NoThreads
    /\ demo = NoDemo

\* the function was not compiled yet
Building == last.call # "jit_function_compile"

NextBuild ==
    \/ Building /\ BuildDest(MaxInsns, MaxSsaId)
    \/ Building /\ BuildVoid(MaxInsns)
    \/ jit_function_compile

SpecBuild == InitBuild /\ [][NextBuild]_vars

\* a client that has built one arithmetic instruction on two constants
FoldOps == {JIT_OP_ADD, JIT_OP_SUB, JIT_OP_MUL}
FoldArchs == {JIT_ARCH_X86_64, JIT_ARCH_RISCV64}

InitFold ==
    /\ \E t \in FoldArchs, op \in FoldOps, a, b \in MinInt .. MaxInt :
          /\ g_jit_context = InitContext(t, CacheBase)
          /\ current_arch = ArchLookup(t, 1)
          /\ LET f0 == NewFunction(0, ArchLookup(t, 1), TRUE)
                 f1 == BumpSsa(f0)
                 f2 == BumpSsa(f1)
                 inst == [ZeroInstruction EXCEPT !.opcode = op,
                                                 !.dest = Param(f2),
                                                 !.src1 = Const(f0, a),
                                                 !.src2 = Const(f1, b)]
             IN  /\ func = add_instruction(BumpSsa(f2), inst)
                 /\ vals = {Const(f0, a), Const(f1, b), inst.dest}
    /\ block_id_counter = 1
    /\ cache = ZeroCache
    /\ status = "running"
    /\ overrun = FALSE
    /\ last \in {Call(n, "void", 0, 0, <<>>) :
                   n \in {"jit_insn_add", "jit_insn_sub", "jit_insn_mul"}}
    /\ (last.call = "jit_insn_add") = (func.blk.instructions[1].opcode = JIT_OP_ADD)
    /\ (last.call = "jit_insn_sub") = (func.blk.instructions[1].opcode = JIT_OP_SUB)
    /\ cpu = NoRun
    /\ threads = NoThreads
    /\ demo = NoDemo

NextFold == jit_function_compile

SpecFold == InitFold /\ [][NextFold]_vars

\* a client that has initialized a context for x86-64 and created a function,
\* and creates values, builds and compiles in any order
InitIr ==
    /\ g_jit_context = InitContext(JIT_ARCH_X86_64, CacheBase)
    /\ current_arch = ArchLookup(JIT_ARCH_X86_64, 1)
    /\ func = NewFunction(0, ArchLookup(JIT_ARCH_X86_64, 1), TRUE)
    /\ vals = {}
    /\ block_id_counter = 1
    /\ cache = ZeroCache
    /\ status = "running"
    /\ overrun = FALSE
    /\ last = Call("jit_function_create", "PTR", 0, 0, <<>>)
    /\ cpu = NoRun
    /\ threads = NoThreads
    /\ demo = NoDemo

NextIr ==
    \/ Values(IrSsaId, SmallConsts)
    \/ BuildDest(SmallInsns, IrSsaId)
    \/ BuildVoid(SmallInsns)
    \/ jit_function_compile

SpecIr == InitIr /\ [][NextIr]_vars

\* two programs that call the code they compiled: a client of the engine that
\* has built f(a, b) = a + b, or f() = (x + y) * z from three constants, for
\* x86-64; and main of jit_compiler.c
RunConsts == {2, 3, 4}
RunArgs == {-1, 0, 2, MaxInt}
RaxInputs == {0, 3}

\* the instruction jit_insn_add, jit_insn_sub or jit_insn_mul builds in f
ArithOn(f, op, left, right) ==
    [ZeroInstruction EXCEPT !.opcode = op,
                            !.dest = jit_value_create(f, left.type),
                            !.src1 = left,
                            !.src2 = right]

ReturnOf(value) == [ZeroInstruction EXCEPT !.opcode = JIT_OP_RETURN, !.src1 = value]

\* p1 = value; p2 = value; s = add(p1, p2); return(s)
AddFunction ==
    LET f0 == NewFunction(0, 1, TRUE)
        f1 == BumpSsa(f0)
        f2 == BumpSsa(f1)
        add == ArithOn(f2, JIT_OP_ADD, Param(f0), Param(f1))
        f3 == add_instruction(BumpSsa(f2), add)
    IN  [func |-> add_instruction(f3, ReturnOf(add.dest)),
         vals |-> {Param(f0), Param(f1), add.dest}]

\* c1 = const(x); c2 = const(y); c3 = const(z); t = add(c1, c2); u = mul(t, c3);
\* return(u)
ConstFunction(x, y, z) ==
    LET f0 == NewFunction(0, 1, TRUE)
        f1 == BumpSsa(f0)
        f2 == BumpSsa(f1)
        f3 == BumpSsa(f2)
        add == ArithOn(f3, JIT_OP_ADD, Const(f0, x), Const(f1, y))
        f4 == add_instruction(BumpSsa(f3), add)
        mul == ArithOn(f4, JIT_OP_MUL, add.dest, Const(f2, z))
        f5 == add_instruction(BumpSsa(f4), mul)
    IN  [func |-> add_instruction(f5, ReturnOf(mul.dest)),
         vals |-> {Const(f0, x), Const(f1, y), Const(f2, z), add.dest, mul.dest}]

InitRun ==
    /\ \/ /\ g_jit_context = InitContext(JIT_ARCH_X86_64, CacheBase)
          /\ \E built \in {AddFunction} \cup
                           {ConstFunction(x, y, z) : x, y, z \in RunConsts} :
                /\ func = built.func
                /\ vals = built.vals
          /\ block_id_counter = 1
          /\ last = Call("jit_insn_return", "void", 0, 0, <<>>)
          /\ demo = NoDemo
       \/ /\ g_jit_context = ZeroContext
          /\ func = NullFunc
          /\ vals = {}
          /\ block_id_counter = 0
          /\ last = NoCall
          /\ demo = [NoDemo EXCEPT !.at = "main"]
    /\ current_arch = 1
    /\ cache = ZeroCache
    /\ status = "running"
    /\ overrun = FALSE
    /\ cpu = NoRun
    /\ threads = NoThreads

NextRun ==
    \/ func.ptr # NULL /\ jit_function_compile
    \/ \E a, b \in RunArgs, r \in RaxInputs : Invoke(a, b, r)
    \/ \E malloc_ok, mmap_ok \in BOOLEAN : jit_create_context(malloc_ok, mmap_ok)
    \/ \E malloc_ok \in BOOLEAN : jit_compile_add_function(malloc_ok)
    \/ \E a, b \in RunArgs, r \in RaxInputs : add_func(a, b, r)
    \/ jit_destroy_context

SpecRun == InitRun /\ [][NextRun]_vars

---------------------------------------------------------------------------
(* Two threads that each compile a function of their own for x86-64 on the one
   context: return(p), or s = op(p1, p2); return(s) for Add or Mul *)

\* p = value; return(p)
ReturnFunction ==
    LET f0 == NewFunction(0, 1, TRUE)
    IN  add_instruction(BumpSsa(f0), ReturnOf(Param(f0)))

\* p1 = value; p2 = value; s = op(p1, p2); return(s)
ArithFunction(op) ==
    LET f0 == NewFunction(0, 1, TRUE)
        f1 == BumpSsa(f0)
        f2 == BumpSsa(f1)
        inst == ArithOn(f2, op, Param(f0), Param(f1))
    IN  add_instruction(add_instruction(BumpSsa(f2), inst), ReturnOf(inst.dest))

ThreadFuncs == {ReturnFunction, ArithFunction(JIT_OP_ADD), ArithFunction(JIT_OP_MUL)}

InitThreads ==
    /\ g_jit_context = InitContext(JIT_ARCH_X86_64, CacheBase)
    /\ current_arch = ArchLookup(JIT_ARCH_X86_64, 1)
    /\ block_id_counter = 2
    /\ cache = ZeroCache
    /\ func = NullFunc
    /\ vals = {}
    /\ status = "running"
    /\ overrun = FALSE
    /\ last = Call("jit_insn_return", "void", 0, 0, <<>>)
    /\ cpu = NoRun
    /\ demo = NoDemo
    /\ \E f1, f2 \in ThreadFuncs :
          threads = [t \in Threads |->
                        [NoThread EXCEPT !.pc = "call",
                                         !.func = IF t = 1 THEN f1 ELSE f2]]

NextThreads ==
    \E t \in Threads :
       \/ compile_enter(t)
       \/ codegen_store(t)
       \/ cursor_load(t)
       \/ cursor_store(t)

SpecThreads == InitThreads /\ [][NextThreads]_vars

---------------------------------------------------------------------------

(* The register allocator of jit_compiler.c on a block of instructions.  Each
   instruction has a destination of its own with no register yet (data.reg is
   -1), except for at most two, which have a destination that holds RBX, that
   is NULL, or that is the destination of the instruction before. *)

DestKinds == {"fixed", "none", "shared"}

\* the block of the given kinds of destination; value i is made for instruction i
BlockOf(kinds) ==
    [values |-> [i \in 1 .. Len(kinds) |->
                    [id |-> i - 1, reg |-> IF kinds[i] = "fixed" THEN RBX ELSE -1]],
     instructions |-> [i \in 1 .. Len(kinds) |->
                          [opcode |-> IR_ADD,
                           dest |-> IF kinds[i] = "none" THEN NULL
                                    ELSE IF kinds[i] = "shared" /\ i > 1
                                              /\ kinds[i - 1] # "none"
                                    THEN i - 1
                                    ELSE i,
                           src1 |-> NULL, src2 |-> NULL]]]

InitAlloc ==
    /\ g_jit_context = ZeroContext
    /\ current_arch = 1
    /\ block_id_counter = 0
    /\ cache = ZeroCache
    /\ func = NullFunc
    /\ vals = {}
    /\ status = "running"
    /\ overrun = FALSE
    /\ last = NoCall
    /\ cpu = NoRun
    /\ threads = NoThreads
    /\ \E n \in 0 .. AllocInsns, p, q \in 0 .. AllocInsns, kp, kq \in DestKinds :
          LET kinds == [i \in 1 .. n |-> IF i = p THEN kp
                                         ELSE IF i = q THEN kq ELSE "free"]
              b == BlockOf(kinds)
          IN  demo = [NoDemo EXCEPT !.at = "ir", !.ctx = 1,
                                    !.code_buffer = BufferBase,
                                    !.next_ssa_id = n,
                                    !.block_count = 1,
                                    !.values = b.values,
                                    !.instructions = b.instructions]

NextAlloc == allocate_registers

SpecAlloc == InitAlloc /\ [][NextAlloc]_vars

---------------------------------------------------------------------------
(* Properties *)

\* the last call was jit_function_compile and it came back to the caller
CompileReturned == last.call = "jit_function_compile" /\ last.ret # "killed"

\* the cache cursor of the context, as an offset
Cursor == CodeOffset(g_jit_context)

\* C1: no compile call stores a byte at or past the capacity of the code cache,
\* and the cache cursor never exceeds the capacity.
C1_EmitsInsideCache ==
    /\ ~overrun
    /\ g_jit_context.initialized # 0 => Cursor <= g_jit_context.code_cache_size

\* C2: a compile call whose code does not fit in the rest of the cache returns
\* failure, not a function pointer.
C2_ExhaustionReported ==
    (/\ CompileReturned
     /\ g_jit_context.initialized # 0
     /\ (last.val - g_jit_context.code_cache) + last.emitted
            > g_jit_context.code_cache_size)
    => last.ret = "NULL"

\* C3: a compile call that returns failure leaves the function as it was:
\* opcodes, operands, live flags and the next SSA id.
C3_FailedCompileKeepsIR ==
    [][(last'.call = "jit_function_compile" /\ last'.ret = "NULL") => func' = func]_vars

\* C4: a compile call that returns failure leaves the cache cursor where it was.
C4_FailedCompileKeepsCursor ==
    [][(last'.call = "jit_function_compile" /\ last'.ret = "NULL")
         => g_jit_context'.code_ptr = g_jit_context.code_ptr]_vars

\* a compile call ran its passes on a function with instructions and then
\* failed for want of a code generator
C4_Witness ==
    /\ CompileReturned
    /\ last.ret = "NULL"
    /\ last.steps = PassNames
    /\ g_jit_context.initialized # 0
    /\ Len(func.blk.instructions) > 0

\* C5: a successful compile call runs dead-code elimination, constant folding,
\* register allocation and code generation, in this order, each once.
C5_FourStepsInOrder ==
    (CompileReturned /\ last.ret = "PTR")
    => /\ Len(last.steps) = 4
       /\ last.steps[1] = "eliminate_dead_code"
       /\ last.steps[2] = "constant_folding"
       /\ last.steps[3] = "allocate_registers"
       /\ last.steps[4] \in {"codegen_x86_64", "codegen_arm64"}

\* x reduced modulo 2^IntBits and read as a signed integer
AsSigned(x) ==
    LET m == x % Pow2(IntBits)
    IN  IF m >= Pow2(IntBits - 1) THEN m - Pow2(IntBits) ELSE m

\* the value the arithmetic opcode op denotes on a and b
Denotes(op, a, b) ==
    IF op = JIT_OP_ADD THEN a + b ELSE IF op = JIT_OP_SUB THEN a - b ELSE a * b

\* this step is a compile call that got past the test of its arguments
CompileStep ==
    /\ last'.call = "jit_function_compile"
    /\ ~EarlyReturn(func, g_jit_context)

Insns == func.blk.instructions

\* C6: constant folding turns Add, Sub or Mul of const(a) and const(b) into a
\* Mov of the constant a+b, a-b or a*b, wrapped to the signed width; it never
\* traps.
C6_FoldWrapsAround ==
    [][CompileStep =>
         \A i \in 1 .. Len(Insns) :
            (/\ Insns[i].opcode \in {JIT_OP_ADD, JIT_OP_SUB, JIT_OP_MUL}
             /\ Insns[i].src1.is_constant = 1
             /\ Insns[i].src2.is_constant = 1)
            => /\ status' = "running"
               /\ Insns'[i].opcode = JIT_OP_MOV
               /\ Insns'[i].src1.is_constant = 1
               /\ Insns'[i].src1.constant_value =
                      AsSigned(Denotes(Insns[i].opcode,
                                       Insns[i].src1.constant_value,
                                       Insns[i].src2.constant_value))]_vars

\* the opcodes with an observable effect
Observable(op) == op \in {JIT_OP_STORE, JIT_OP_RETURN, JIT_OP_CALL}

\* instruction a has the destination of instruction b as an operand
Uses(a, b) == b.dest.id # 0 /\ (a.src1.id = b.dest.id \/ a.src2.id = b.dest.id)

\* the positions reachable from the set S of positions by operand dependency
RECURSIVE Reach(_, _)
Reach(insns, S) ==
    LET T == S \cup {j \in 1 .. Len(insns) : \E i \in S : Uses(insns[i], insns[j])}
    IN  IF T = S THEN S ELSE Reach(insns, T)

Needed(insns) == Reach(insns, {i \in 1 .. Len(insns) : Observable(insns[i].opcode)})

\* instruction new is instruction old, still in place: the same destination and
\* targets, and for an observable instruction the same opcode and operands
Kept(old, new) ==
    /\ new.dest = old.dest
    /\ new.target_block = old.target_block
    /\ new.else_block = old.else_block
    /\ Observable(old.opcode) =>
           (new.opcode = old.opcode /\ new.src1 = old.src1 /\ new.src2 = old.src2)

\* C7: after compile every Store, Return and Call, and every instruction they
\* reach by operand dependency, is still in its block at its position.
C7_NeededInstructionsStay ==
    [][(CompileStep /\ last'.ret # "killed") =>
         \A i \in Needed(Insns) : i <= Len(Insns') /\ Kept(Insns[i], Insns'[i])]_vars

\* a function was compiled in which a Return consumes the result of an earlier
\* instruction, and in which some instruction is not needed
C7_Witness ==
    /\ CompileReturned
    /\ last.ret = "PTR"
    /\ \E j, k \in 1 .. Len(Insns) :
          /\ Insns[k].opcode = JIT_OP_RETURN
          /\ Insns[k].is_live = 1
          /\ Uses(Insns[k], Insns[j])
    /\ Needed(Insns) # 1 .. Len(Insns)

\* C8: after the dead-code elimination of a compile call, an Add whose result no
\* live instruction consumes is not marked live.
C8_UnusedAddIsDead ==
    [][(CompileStep /\ last'.ret # "killed") =>
         \A i \in 1 .. Len(Insns) :
            (/\ Insns[i].opcode = JIT_OP_ADD
             /\ ~ \E j \in 1 .. Len(Insns) :
                     Insns'[j].is_live = 1 /\ Uses(Insns[j], Insns[i]))
            => Insns'[i].is_live = 0]_vars

\* a compiled function with a live instruction and an Add that nothing consumes
C8_Witness ==
    /\ CompileReturned
    /\ func.ptr # NULL
    /\ \E i, k \in 1 .. Len(Insns) :
          /\ Insns[i].opcode = JIT_OP_ADD
          /\ Insns[i].is_live = 0
          /\ Insns[k].is_live = 1
          /\ ~ \E j \in 1 .. Len(Insns) : Uses(Insns[j], Insns[i])

\* C9: compile in a context for RISC-V returns failure and stores no byte in
\* the code cache.
C9_RiscvCompileFails ==
    [][(CompileStep /\ g_jit_context.target_arch = JIT_ARCH_RISCV64) =>
         /\ last'.ret = "NULL"
         /\ cache' = cache
         /\ g_jit_context'.code_ptr = g_jit_context.code_ptr]_vars

\* the architecture has an entry in supported_archs
InTable(arch) == \E i \in 1 .. Len(supported_archs) : supported_archs[i].arch = arch

\* C10: init returns an error and leaves the context uninitialized when the
\* architecture is not in the table, and when the mapping fails.
C10_InitRejects ==
    (/\ last.call = "jit_init"
     /\ \/ ~InTable(g_jit_context.target_arch)
        \/ g_jit_context.code_cache = MAP_FAILED)
    => (last.val # JIT_SUCCESS /\ g_jit_context.initialized = 0)

\* this step is the call of the given name
Step(name) == last'.call = name

\* C11: function_create and compile return failure whenever the context is not
\* initialized (before the first successful init, after a failed init, after
\* cleanup), and cleanup always leaves the context uninitialized.
C11_UninitializedFails ==
    [][/\ (g_jit_context.initialized = 0 /\ Step("jit_function_create"))
           => (last'.ret = "NULL" /\ func' = func)
       /\ (g_jit_context.initialized = 0 /\ Step("jit_function_compile"))
           => (last'.ret = "NULL" /\ last'.emitted = 0 /\ cache' = cache)
       /\ Step("jit_init") =>
              (g_jit_context'.initialized # 0) = (last'.val = JIT_SUCCESS)
       /\ Step("jit_cleanup") => g_jit_context'.initialized = 0]_vars

\* compile was refused on a function the caller holds, after an init that failed
C11_Witness ==
    /\ CompileReturned
    /\ last.ret = "NULL"
    /\ func.ptr # NULL
    /\ g_jit_context.initialized = 0
    /\ g_jit_context.code_cache = MAP_FAILED

\* C12: function_create fails when the allocation of the function or of its
\* entry block fails: every function it returns has an entry block, and its
\* current block is the entry block.
C12_CreatedFunctionHasEntry ==
    (last.call = "jit_function_create" /\ last.ret = "PTR")
    => /\ func.entry_block # NULL
       /\ func.current_block = func.entry_block
       /\ func.num_blocks >= 1

\* the calls between init and cleanup that the cache has to survive
CacheClients ==
    {"jit_function_create", "jit_function_destroy", "jit_function_compile",
     "jit_value_create", "jit_value_create_constant",
     "jit_insn_add", "jit_insn_sub", "jit_insn_mul", "jit_insn_load",
     "jit_insn_store", "jit_insn_branch", "jit_insn_branch_if", "jit_insn_return"}

C14_DestroyKeepsContext ==
    [][Step("jit_function_destroy")
       => (g_jit_context' = g_jit_context /\ cache' = cache)]_vars

\* a function was destroyed after code was emitted for it
C14_Witness ==
    /\ last.call = "jit_function_destroy"
    /\ func.ptr = NULL
    /\ g_jit_context.initialized # 0
    /\ Cursor > 0
    /\ cache[0] # 0

\* C15: contexts share no state: initializing another context leaves the target
\* architecture, code cache, cursor and emitted code of the first one as they
\* were.
C15_ContextsIndependent ==
    [][(g_jit_context.initialized # 0 /\ Step("jit_init"))
       => /\ g_jit_context'.target_arch = g_jit_context.target_arch
          /\ g_jit_context'.code_ptr = g_jit_context.code_ptr
          /\ g_jit_context'.initialized = g_jit_context.initialized
          /\ cache' = cache]_vars

\* the function the caller holds is f(a, b) = a + b: an Add of two distinct
\* non-constant values and a Return of its result
IsAddFunction ==
    /\ func.ptr # NULL
    /\ Len(Insns) = 2
    /\ Insns[1].opcode = JIT_OP_ADD
    /\ Insns[1].src1.is_constant = 0
    /\ Insns[1].src2.is_constant = 0
    /\ Insns[1].src1.id # Insns[1].src2.id
    /\ Insns[2].opcode = JIT_OP_RETURN
    /\ Insns[2].src1.id = Insns[1].dest.id

\* the call returned the sum and left the stack and frame pointer of the caller
ReturnedSum ==
    /\ cpu.halt = "ret"
    /\ cpu.rax = AsSigned(cpu.a + cpu.b)
    /\ cpu.rsp = StackTop + 8
    /\ cpu.rbp = FrameBase

\* C16: the x86-64 code compiled for f(a, b) = a + b returns a + b modulo the
\* register width for every pair of arguments, and leaves the stack pointer and
\* the frame pointer as they were on entry.
C16_AddFunctionReturnsSum ==
    /\ last.call = "add_func" => ReturnedSum
    /\ (last.call = "Invoke" /\ IsAddFunction) => ReturnedSum

\* the constant the caller created with the given id
ConstOf(id) == (CHOOSE v \in vals : v.id = id).constant_value

\* the function the caller holds was built as (3 + 4) * 2
IsThreePlusFourTimesTwo ==
    /\ func.ptr # NULL
    /\ Len(Insns) = 3
    /\ Insns[2].opcode = JIT_OP_MUL
    /\ Insns[3].opcode = JIT_OP_RETURN
    /\ {v.id : v \in {w \in vals : w.is_constant = 1}} = {1, 2, 3}
    /\ ConstOf(1) = 3 /\ ConstOf(2) = 4 /\ ConstOf(3) = 2

\* C17: for f() = (3 + 4) * 2 built from constants, after the constant folding
\* of compile the one instruction left before the Return is a Mov, and the
\* compiled code returns 14.
C17_ConstantExpression ==
    /\ (IsThreePlusFourTimesTwo /\ CompileReturned /\ last.ret = "PTR")
       => /\ \A i \in 1 .. Len(Insns) : Insns[i].opcode \in {JIT_OP_MOV, JIT_OP_RETURN}
          /\ Cardinality({i \in 1 .. Len(Insns) : Insns[i].opcode = JIT_OP_MOV}) = 1
    /\ (IsThreePlusFourTimesTwo /\ last.call = "Invoke")
       => (cpu.halt = "ret" /\ cpu.rax = (3 + 4) * 2)

\* the operand fields of the instructions of the block
Operands(insns) ==
    UNION {{insns[i].dest, insns[i].src1, insns[i].src2} : i \in 1 .. Len(insns)}

\* the values created so far: those the caller holds and those in instructions
\* (id 0 marks an unused operand field)
Handed == {v \in vals \cup Operands(Insns) : v.id # 0}

BuilderOpcode ==
    [jit_insn_add |-> JIT_OP_ADD, jit_insn_sub |-> JIT_OP_SUB,
     jit_insn_mul |-> JIT_OP_MUL, jit_insn_load |-> JIT_OP_LOAD,
     jit_insn_store |-> JIT_OP_STORE, jit_insn_branch |-> JIT_OP_BRANCH,
     jit_insn_branch_if |-> JIT_OP_BRANCH_IF, jit_insn_return |-> JIT_OP_RETURN]

\* C19: each IR-builder call appends exactly one instruction at the tail of the
\* current block: the instructions before it stay in call order, the recorded
\* count is the length of the list, and last_instruction is its tail.
C19_BuilderAppendsAtTail ==
    [][(last'.call \in DOMAIN BuilderOpcode /\ last'.ret # "killed")
       => /\ Len(Insns') = Len(Insns) + 1
          /\ SubSeq(Insns', 1, Len(Insns)) = Insns
          /\ Insns'[Len(Insns')].opcode = BuilderOpcode[last'.call]
          /\ Insns'[Len(Insns')].is_live = 0
          /\ func'.blk.num_instructions = Len(Insns')
          /\ func'.blk.last_instruction = Len(Insns')]_vars

\* three builder calls were made, for a Load, an Add and a Return, in this order
C19_Witness ==
    /\ last.call = "jit_insn_return"
    /\ Len(Insns) = 3
    /\ Insns[1].opcode = JIT_OP_LOAD
    /\ Insns[2].opcode = JIT_OP_ADD
    /\ Insns[3].opcode = JIT_OP_RETURN
    /\ func.blk.num_instructions = 3

\* C20: after the dead-code elimination of compile the live instructions are
\* closed under operand dependency: every Store, Return and Call is live, and
\* so is every instruction whose destination is an operand of a live one.
C20_LiveSetClosed ==
    (CompileReturned /\ last.steps # <<>>)
    => /\ \A i \in 1 .. Len(Insns) : Observable(Insns[i].opcode) => Insns[i].is_live = 1
       /\ \A i, j \in 1 .. Len(Insns) :
             (Insns[j].is_live = 1 /\ Uses(Insns[j], Insns[i])) => Insns[i].is_live = 1

\* the instructions of the function that dead-code elimination walks
Walked(f) == IF f.entry_block = NULL THEN <<>> ELSE f.blk.instructions

\* C21: dead-code elimination terminates on every function: the live flags
\* only change from not live to live, and the loop makes at most (number of
\* instructions + 1) sweeps.
C21_DceTerminates ==
    [][(CompileStep /\ last'.ret # "killed")
       => /\ DceSweeps(Walked(func)) <= Len(Walked(func)) + 1
          /\ Len(Insns') = Len(Insns)
          /\ \A i \in 1 .. Len(Insns) :
                /\ Insns[i].is_live # 0 => Insns'[i].is_live # 0
                /\ Insns'[i].is_live = DceLoop(Insns)[i].is_live]_vars

\* a compile of a function whose Return had been marked live by an earlier
\* compile: the loop of the second compile made its single sweep
C21_Witness ==
    /\ CompileReturned
    /\ last.val > g_jit_context.code_cache
    /\ Len(Insns) = 1
    /\ Insns[1].opcode = JIT_OP_RETURN
    /\ Insns[1].is_live = 1
    /\ DceSweeps(Insns) = 1

\* the instruction with its live flag left out of the comparison
SameButLive(new, old) == [new EXCEPT !.is_live = old.is_live] = old

\* C22: constant folding rewrites a foldable instruction in place: the opcode
\* becomes Mov, src1 becomes a newly created constant (fresh id, the type of
\* the destination, the result as value), src2 no longer denotes a value or a
\* constant, the destination is unchanged; every other instruction is left as
\* it was.
C22_FoldedShape ==
    [][(CompileStep /\ last'.ret # "killed")
       => \A i \in 1 .. Len(Insns) :
             LET old == Insns[i]
                 new == Insns'[i]
             IN  IF Foldable(old)
                 THEN /\ new.opcode = JIT_OP_MOV
                      /\ new.src1.is_constant = 1
                      /\ new.src1.id >= func.next_ssa_id
                      /\ new.src1.id < func'.next_ssa_id
                      /\ new.src1.type = old.dest.type
                      /\ new.src1.constant_value = Wrap(FoldExact(old))
                      /\ new.src2.id = 0
                      /\ new.src2.is_constant = 0
                      /\ new.dest = old.dest
                 ELSE SameButLive(new, old)]_vars

\* the compile step folded the instruction at position i
FoldedAt(i) ==
    /\ Insns[i].opcode \in {JIT_OP_ADD, JIT_OP_SUB, JIT_OP_MUL}
    /\ Insns'[i].opcode = JIT_OP_MOV

Unassigned ==
    {v \in 1 .. Len(demo.values) :
        /\ demo.values[v].reg = -1
        /\ \E i \in 1 .. Len(demo.instructions) : demo.instructions[i].dest = v}

\* the position of the first instruction with destination v
FirstDest(v) ==
    CHOOSE i \in 1 .. Len(demo.instructions) :
        /\ demo.instructions[i].dest = v
        /\ \A j \in 1 .. (i - 1) : demo.instructions[j].dest # v

\* the number of unassigned destinations met before v in program order
Rank(v) == Cardinality({w \in Unassigned : FirstDest(w) < FirstDest(v)})

Upto(n) == [func EXCEPT !.blk.instructions = SubSeq(Insns, 1, n)]

\* the bytes the last compile call left in the cache for instruction i
CodeOf(i) ==
    LET arch == g_jit_context.target_arch
        start == last.val - g_jit_context.code_cache
        from == start + Len(Codegen(arch, Upto(i - 1)))
        to == start + Len(Codegen(arch, Upto(i)))
    IN  [k \in 1 .. (to - from) |-> cache[from + k - 1]]

\* the eight bytes are the little-endian two's complement form of v
IsImm64(bytes, v) ==
    /\ Len(bytes) = 8
    /\ bytes[1] + 256 * bytes[2] + 65536 * bytes[3] = v % 16777216
    /\ \A k \in 4 .. 8 : bytes[k] = IF v < 0 THEN 255 ELSE 0

\* C25: in both backends a Mov with a constant operand makes the code
\* generator emit a move-immediate that carries the constant; on x86-64 it is
\* 10 bytes: two opcode bytes and the little-endian immediate.
C25_MovImmediate ==
    (CompileReturned /\ last.ret = "PTR" /\ ~overrun)
    => \A i \in 1 .. Len(Insns) :
          (Insns[i].opcode = JIT_OP_MOV /\ Insns[i].src1.is_constant # 0)
          => /\ Len(CodeOf(i)) >= 4
             /\ g_jit_context.target_arch = JIT_ARCH_X86_64
                => /\ Len(CodeOf(i)) = 10
                   /\ SubSeq(CodeOf(i), 1, 2) = <<72, 184>>
                   /\ IsImm64(SubSeq(CodeOf(i), 3, 10), Insns[i].src1.constant_value)

\* the function's blocks are as they were before the step
BlocksUnchanged ==
    /\ func'.current_block = func.current_block
    /\ func'.entry_block = func.entry_block
    /\ func'.num_blocks = func.num_blocks
    /\ block_id_counter' = block_id_counter

\* the instruction the step appended
Appended == Insns'[Len(Insns')]

\* C27: branch and branch_if record their target blocks in the instruction they
\* append and leave current_block, entry_block and the block count of the
\* function unchanged; the instruction that follows a branch_if in call order
\* is appended to the same block, right after the branch_if.
C27_BranchKeepsCurrentBlock ==
    [][/\ \A t \in BlockInputs :
             (jit_insn_branch(t, TRUE) /\ last'.ret # "killed")
             => /\ Appended.opcode = JIT_OP_BRANCH
                /\ Appended.target_block = t
                /\ BlocksUnchanged
       /\ \A c \in vals, t, e \in BlockInputs :
             (jit_insn_branch_if(c, t, e, TRUE) /\ last'.ret # "killed")
             => /\ Appended.opcode = JIT_OP_BRANCH_IF
                /\ Appended.src1 = c
                /\ Appended.target_block = t
                /\ Appended.else_block = e
                /\ BlocksUnchanged
       /\ (/\ last.call = "jit_insn_branch_if"
           /\ last'.call \in DOMAIN BuilderOpcode
           /\ last'.ret # "killed")
          => /\ Len(Insns') = Len(Insns) + 1
             /\ Insns'[Len(Insns)] = Insns[Len(Insns)]
             /\ Insns[Len(Insns)].opcode = JIT_OP_BRANCH_IF
             /\ BlocksUnchanged]_vars

\* a Return was appended after a branch_if to the entry block and to no block:
\* both are in the list of the block that is still the current block
C27_Witness ==
    /\ last.call = "jit_insn_return"
    /\ Len(Insns) = 2
    /\ Insns[1].opcode = JIT_OP_BRANCH_IF
    /\ Insns[1].target_block = func.entry_block
    /\ Insns[1].else_block = NULL
    /\ Insns[2].opcode = JIT_OP_RETURN
    /\ func.current_block = func.entry_block
    /\ func.num_blocks = 1

\* the two register fields of a register-register encoding: on x86-64 reg and
\* r/m of the ModR/M byte, the last byte; on ARM64 Rn (bits 5 to 9) and Rm
\* (bits 16 to 20) of the word
SourceFields(arch, code) ==
    IF arch = JIT_ARCH_X86_64
    THEN <<RegField(code[Len(code)]), RmField(code[Len(code)])>>
    ELSE <<(code[1] \div 32) + 8 * (code[2] % 4), code[3] % 32>>

\* C26: for Add, Sub and Mul the code generator emits a register-register
\* encoding whose register fields are the registers of the instruction's
\* operands: an instruction on two different values names two different
\* registers.
C26_RegisterFields ==
    (CompileReturned /\ last.ret = "PTR" /\ ~overrun)
    => \A i \in 1 .. Len(Insns) :
          (/\ Insns[i].opcode \in {JIT_OP_ADD, JIT_OP_SUB, JIT_OP_MUL}
           /\ Insns[i].src1.id # Insns[i].src2.id)
          => /\ Len(CodeOf(i)) >= 3
             /\ LET fields == SourceFields(g_jit_context.target_arch, CodeOf(i))
                IN  fields[1] # fields[2]

\* both threads are back from jit_function_compile with a pointer
BothReturned == \A t \in Threads : threads[t].pc = "done" /\ threads[t].ret # NULL

\* the bytes [ret, ret + code_size) of the two calls have no byte in common
RegionsDisjoint ==
    \/ threads[1].ret + Len(threads[1].code) <= threads[2].ret
    \/ threads[2].ret + Len(threads[2].code) <= threads[1].ret

\* one call began after the other had returned
Serialized == \E t \in Threads : threads[t].after

\* C28: compile takes no lock: two threads on the one context can both read
\* the same code pointer, store their code to overlapping bytes and return the
\* same pointer (the witness); when one call begins after the other returned,
\* the regions returned are disjoint.
C28_SerializedDisjoint ==
    (BothReturned /\ Serialized)
    => /\ RegionsDisjoint
       /\ g_jit_context.code_ptr =
              g_jit_context.code_cache + Len(threads[1].code) + Len(threads[2].code)

\* both calls returned the same pointer: each began before the other returned,
\* each stored its code from that pointer on, and the code of the Add function is
\* in the cache with the epilogue of the Return function stored into it
C28_Witness ==
    /\ BothReturned
    /\ ~Serialized
    /\ threads[1].ret = threads[2].ret
    /\ ~RegionsDisjoint
    /\ Len(threads[1].code) = 9
    /\ Len(threads[2].code) = 12
    /\ cache[4] = 72 /\ cache[5] = 137 /\ cache[6] = 236
    /\ cache[7] = 72 /\ cache[8] = 137 /\ cache[9] = 236

\* the number of bytes of the template of an opcode, by backend; for Mov it
\* depends on whether the operand is a constant
TemplateBytes(arch, inst) ==
    IF arch = JIT_ARCH_X86_64
    THEN IF inst.opcode \in {JIT_OP_ADD, JIT_OP_SUB} THEN 3
         ELSE IF inst.opcode = JIT_OP_MUL THEN 4
         ELSE IF inst.opcode = JIT_OP_MOV
         THEN IF inst.src1.is_constant # 0 THEN 10 ELSE 3
         ELSE IF inst.opcode = JIT_OP_RETURN THEN 5
         ELSE 0
    ELSE IF inst.opcode \in {JIT_OP_ADD, JIT_OP_SUB, JIT_OP_MUL} THEN 4
         ELSE IF inst.opcode = JIT_OP_RETURN THEN 8
         ELSE 0

PrologueBytes(arch) == IF arch = JIT_ARCH_X86_64 THEN 4 ELSE 8

RECURSIVE SumBytes(_, _, _)
SumBytes(arch, insns, i) ==
    IF i > Len(insns) THEN 0
    ELSE TemplateBytes(arch, insns[i]) + SumBytes(arch, insns, i + 1)

\* C29: compile never removes or reorders instructions, and the code generator
\* emits the template of the opcode for every instruction, marked live or not:
\* the number of bytes emitted depends on the opcodes and constant flags only.
C29_EmitsEveryInstruction ==
    [][(CompileStep /\ last'.ret = "PTR" /\ ~overrun')
       => /\ Len(Insns') = Len(Insns)
          /\ \A i \in 1 .. Len(Insns) :
                /\ Insns'[i].dest = Insns[i].dest
                /\ Insns'[i].opcode = Insns[i].opcode
                   \/ (Foldable(Insns[i]) /\ Insns'[i].opcode = JIT_OP_MOV)
                /\ Len(CodeOf(i)') = TemplateBytes(g_jit_context.target_arch, Insns'[i])
          /\ last'.emitted = PrologueBytes(g_jit_context.target_arch)
                             + SumBytes(g_jit_context.target_arch, Insns', 1)]_vars

\* compile returned for an Add that dead-code elimination left not live and a
\* Return that it marked live: the 12 bytes hold the template of both
C29_Witness ==
    /\ CompileReturned
    /\ last.ret = "PTR"
    /\ ~overrun
    /\ g_jit_context.target_arch = JIT_ARCH_X86_64
    /\ Len(Insns) = 2
    /\ Insns[1].opcode = JIT_OP_ADD
    /\ Insns[1].is_live = 0
    /\ Insns[2].opcode = JIT_OP_RETURN
    /\ Insns[2].is_live = 1
    /\ last.emitted = 12
    /\ CodeOf(1) = <<72, 1, 192>>

\* the offset in the cache of the code the last compile call returned
StartOf(call) == call.val - g_jit_context.code_cache

\* C30: the passes are idempotent: a successful compile call that follows a
\* successful compile call on the same function changes no opcode, operand or
\* live flag, creates no value (next_ssa_id stays), and emits the same bytes as
\* the first call, from the advanced code pointer on.
C30_SecondCompileSame ==
    [][(/\ CompileReturned
        /\ last.ret = "PTR"
        /\ CompileStep
        /\ last'.ret = "PTR")
       => /\ func' = func
          /\ vals' = vals
          /\ last'.val = last.val + last.emitted
          /\ last'.emitted = last.emitted
          /\ \A k \in 0 .. (last.emitted - 1) :
                (StartOf(last') + k) \in DOMAIN cache
                => cache'[StartOf(last') + k] = cache[StartOf(last) + k]]_vars

\* a second compile returned right after the first, on a function in which the
\* first had folded an instruction to a Mov of a new constant; both emitted
\* the same number of bytes inside the cache
C30_Witness ==
    /\ CompileReturned
    /\ last.ret = "PTR"
    /\ ~overrun
    /\ last.emitted > 0
    /\ StartOf(last) = last.emitted
    /\ Cursor = 2 * last.emitted
    /\ \E i \in 1 .. Len(Insns) :
          /\ Insns[i].opcode = JIT_OP_MOV
          /\ Insns[i].src1.is_constant = 1
          /\ Insns[i].src1.id > Insns[i].dest.id

====
